---- MODULE Spec2Model ----
(***************************************************************************)
(* Model of PhotoConversionTool: script.py (the batch run over a folder    *)
(* tree: photos, sidecars, AVI transcode, video remux) and whatsapp.py     *)
(* (EXIF dates for JPEGs from the file name or the modified time).         *)
(*                                                                         *)
(* Text is modelled as a sequence of one-character strings, a datetime as  *)
(* a record of its six fields, a raised exception as a record with         *)
(* ok = FALSE.                                                             *)
(***************************************************************************)
EXTENDS Integers, Sequences, FiniteSets, TLC

VARIABLES
    \* ---- whatsapp.py: parse_datetime_from_filename applied to one name
    name,        \* the argument `name`
    parsed,      \* the returned pair (date_raw, time_raw)
    mpc,         \* "input" before the call, "parsed" after it
    \* ---- script.py: get_best_file_time applied to one path
    bpath,       \* the argument `path`
    bctime,      \* os.path.getctime(path), seconds since the epoch
    bmtime,      \* os.path.getmtime(path), seconds since the epoch
    bres,        \* what the call returned or raised
    bpc,         \* "input" before the call, "called" after it
    \* ---- a run of script.py (main) or of whatsapp.py (main)
    prog,        \* which program runs: "script", "whatsapp", or "none"
    pc,          \* where the run is: "walk" between files, a handler's name
                 \* while a file is dispatched, "done", "aborted"
    runNo,       \* 1 in the first run over the folder, 2 in a second run
    args,        \* the flags of the run (DRY_RUN, DELETE_ORIGINALS; argparse's)
    stats,       \* script.py's counters
    disk,        \* the files of the current file's folder: path -> file
    cur,         \* the path being processed
    todo,        \* second run: the paths listed and not yet visited
    log          \* the last handler's record: what it found, the external calls
                 \* it made and their outcomes, the counter it incremented

puredata == <<name, parsed, mpc, bpath, bctime, bmtime, bres, bpc>>

rundata == <<prog, pc, runNo, args, stats, disk, cur, todo, log>>

vars == <<name, parsed, mpc, bpath, bctime, bmtime, bres, bpc,
          prog, pc, runNo, args, stats, disk, cur, todo, log>>

-----------------------------------------------------------------------------
(* Text helpers *)

Digits == {"0", "1", "2", "3", "4", "5", "6", "7", "8", "9"}

\* Python's None, distinct from every text (texts hold one-character strings)
None == <<"None">>

IsDigit(c) == c \in Digits

DigitVal(c) ==
    CASE c = "0" -> 0 [] c = "1" -> 1 [] c = "2" -> 2 [] c = "3" -> 3
      [] c = "4" -> 4 [] c = "5" -> 5 [] c = "6" -> 6 [] c = "7" -> 7
      [] c = "8" -> 8 [] c = "9" -> 9

DigitChar(n) ==
    CASE n = 0 -> "0" [] n = 1 -> "1" [] n = 2 -> "2" [] n = 3 -> "3"
      [] n = 4 -> "4" [] n = 5 -> "5" [] n = 6 -> "6" [] n = 7 -> "7"
      [] n = 8 -> "8" [] n = 9 -> "9"

\* s[a..b] are all digits (and exist)
AllDigits(s, a, b) == b <= Len(s) /\ \A i \in a..b : IsDigit(s[i])

\* int(text) for a text of digits
RECURSIVE ToInt(_)
ToInt(s) ==
    IF s = <<>> THEN 0
    ELSE 10 * ToInt(SubSeq(s, 1, Len(s) - 1)) + DigitVal(s[Len(s)])

\* the decimal digits of n, zero-padded to width w (strftime's %m, %d, %H, ...)
RECURSIVE Pad(_, _)
Pad(n, w) ==
    IF w = 0 THEN <<>> ELSE Pad(n \div 10, w - 1) \o <<DigitChar(n % 10)>>

Contains(s, c) == \E i \in 1..Len(s) : s[i] = c

\* re.split(r"[-_]", s)
RECURSIVE SplitDashUnderscore(_)
SplitDashUnderscore(s) ==
    IF \A i \in 1..Len(s) : s[i] \notin {"-", "_"} THEN <<s>>
    ELSE LET i == CHOOSE k \in 1..Len(s) :
                      /\ s[k] \in {"-", "_"}
                      /\ \A j \in 1..(k - 1) : s[j] \notin {"-", "_"}
         IN <<SubSeq(s, 1, i - 1)>> \o SplitDashUnderscore(SubSeq(s, i + 1, Len(s)))

-----------------------------------------------------------------------------
(* datetime *)

IsLeap(y) == (y % 4 = 0 /\ y % 100 # 0) \/ y % 400 = 0

DaysInMonth(y, m) ==
    IF m = 2 THEN (IF IsLeap(y) THEN 29 ELSE 28)
    ELSE IF m \in {4, 6, 9, 11} THEN 30 ELSE 31

Raised(e) == [ok |-> FALSE, exc |-> e]

Returned(v) == [ok |-> TRUE, val |-> v]

\* datetime(year, month, day, hour, minute, second): ValueError outside the
\* calendar (MINYEAR = 1, MAXYEAR = 9999)
MkDatetime(y, mo, d, h, mi, s) ==
    IF /\ y \in 1..9999
       /\ mo \in 1..12
       /\ d >= 1 /\ d <= DaysInMonth(y, mo)
       /\ h \in 0..23 /\ mi \in 0..59 /\ s \in 0..59
    THEN Returned([year |-> y, month |-> mo, day |-> d,
                   hour |-> h, minute |-> mi, second |-> s])
    ELSE Raised("ValueError")

\* datetime.fromtimestamp(t) for t >= 0, the local zone taken as UTC:
\* the civil date of the day number and the time of day of the remainder
FromTimestamp(t) ==
    LET days == t \div 86400
        rem  == t % 86400
        z    == days + 719468
        era  == z \div 146097
        doe  == z - era * 146097
        yoe  == (doe - doe \div 1460 + doe \div 36524 - doe \div 146096) \div 365
        doy  == doe - (365 * yoe + yoe \div 4 - yoe \div 100)
        mp   == (5 * doy + 2) \div 153
        d    == doy - (153 * mp + 2) \div 5 + 1
        m    == IF mp < 10 THEN mp + 3 ELSE mp - 9
        y    == yoe + era * 400 + (IF m <= 2 THEN 1 ELSE 0)
    IN [year |-> y, month |-> m, day |-> d,
        hour |-> rem \div 3600, minute |-> (rem % 3600) \div 60, second |-> rem % 60]

\* dt1 < dt2 on datetimes
DtLess(a, b) ==
    LET ka == <<a.year, a.month, a.day, a.hour, a.minute, a.second>>
        kb == <<b.year, b.month, b.day, b.hour, b.minute, b.second>>
    IN \E i \in 1..6 : ka[i] < kb[i] /\ \A j \in 1..(i - 1) : ka[j] = kb[j]

\* min(a, b): the first argument unless the second is smaller
DtMin(a, b) == IF DtLess(b, a) THEN b ELSE a

\* dt.strftime("%Y-%m-%dT%H:%M:%S")
StrftimeIso(dt) ==
    Pad(dt.year, 4) \o <<"-">> \o Pad(dt.month, 2) \o <<"-">> \o Pad(dt.day, 2)
    \o <<"T">> \o Pad(dt.hour, 2) \o <<":">> \o Pad(dt.minute, 2)
    \o <<":">> \o Pad(dt.second, 2)

\* dt.strftime("%Y:%m:%d %H:%M:%S")
StrftimeExif(dt) ==
    Pad(dt.year, 4) \o <<":">> \o Pad(dt.month, 2) \o <<":">> \o Pad(dt.day, 2)
    \o <<" ">> \o Pad(dt.hour, 2) \o <<":">> \o Pad(dt.minute, 2)
    \o <<":">> \o Pad(dt.second, 2)

-----------------------------------------------------------------------------
(* whatsapp.py: the file-name matcher *)

\* Path(name).stem for a name without directory separators: the name up to
\* its last dot, unless that dot is the first or the last character
Stem(n) ==
    IF ~Contains(n, ".") THEN n
    ELSE LET i == CHOOSE k \in 1..Len(n) :
                      n[k] = "." /\ \A j \in (k + 1)..Len(n) : n[j] # "."
         IN IF 1 < i /\ i < Len(n) THEN SubSeq(n, 1, i - 1) ELSE n

NoMatch == [matched |-> FALSE]

Match(gd) == [matched |-> TRUE, gd |-> gd]

\* ^(?:IMG|VID)-(?P<date>\d{8})-WA\d+
Pat1(s) ==
    IF /\ Len(s) >= 16
       /\ SubSeq(s, 1, 3) \in {<<"I", "M", "G">>, <<"V", "I", "D">>}
       /\ s[4] = "-"
       /\ AllDigits(s, 5, 12)
       /\ s[13] = "-" /\ s[14] = "W" /\ s[15] = "A"
       /\ IsDigit(s[16])
    THEN Match([date |-> SubSeq(s, 5, 12)])
    ELSE NoMatch

\* ^PXL_(?P<date>\d{8})_(?P<time>\d{6})
Pat2(s) ==
    IF /\ Len(s) >= 19
       /\ SubSeq(s, 1, 4) = <<"P", "X", "L", "_">>
       /\ AllDigits(s, 5, 12)
       /\ s[13] = "_"
       /\ AllDigits(s, 14, 19)
    THEN Match([date |-> SubSeq(s, 5, 12), time |-> SubSeq(s, 14, 19)])
    ELSE NoMatch

\* ^(?P<date>\d{8})[_-](?P<time>\d{6})
Pat3(s) ==
    IF /\ Len(s) >= 15
       /\ AllDigits(s, 1, 8)
       /\ s[9] \in {"_", "-"}
       /\ AllDigits(s, 10, 15)
    THEN Match([date |-> SubSeq(s, 1, 8), time |-> SubSeq(s, 10, 15)])
    ELSE NoMatch

\* ^(?P<date>\d{4}[-_]\d{2}[-_]\d{2})[ _T.-](?P<time>\d{2})[.\-_:](?P<min>\d{2})[.\-_:](?P<sec>\d{2})
Pat4(s) ==
    IF /\ Len(s) >= 19
       /\ AllDigits(s, 1, 4)
       /\ s[5] \in {"-", "_"}
       /\ AllDigits(s, 6, 7)
       /\ s[8] \in {"-", "_"}
       /\ AllDigits(s, 9, 10)
       /\ s[11] \in {" ", "_", "T", ".", "-"}
       /\ AllDigits(s, 12, 13)
       /\ s[14] \in {".", "-", "_", ":"}
       /\ AllDigits(s, 15, 16)
       /\ s[17] \in {".", "-", "_", ":"}
       /\ AllDigits(s, 18, 19)
    THEN Match([date |-> SubSeq(s, 1, 10), time |-> SubSeq(s, 12, 13),
                min |-> SubSeq(s, 15, 16), sec |-> SubSeq(s, 18, 19)])
    ELSE NoMatch

\* ^(?P<date>\d{8})
Pat5(s) ==
    IF Len(s) >= 8 /\ AllDigits(s, 1, 8)
    THEN Match([date |-> SubSeq(s, 1, 8)])
    ELSE NoMatch

\* The ordered list: each pattern's match function and whether the text of
\* its regular expression starts with "^(" (read by the parser's line 122)
FILENAME_PATTERNS(s) ==
    << [m |-> Pat1(s), startsParen |-> TRUE],
       [m |-> Pat2(s), startsParen |-> FALSE],
       [m |-> Pat3(s), startsParen |-> TRUE],
       [m |-> Pat4(s), startsParen |-> TRUE],
       [m |-> Pat5(s), startsParen |-> TRUE] >>

\* gd.get(k)
GdGet(gd, k) == IF k \in DOMAIN gd THEN gd[k] ELSE None

\* Python truth of a text or None
Truthy(v) == v # None /\ v # <<>>

\* One pass of the loop body for a pattern that matched: the pair returned,
\* or "continue"
ParseOne(gd, startsParen) ==
    LET date0 == GdGet(gd, "date")
        parts == SplitDashUnderscore(date0)
        date1 == IF (Contains(date0, "-") \/ Contains(date0, "_")) /\ Len(parts) = 3
                 THEN parts[1] \o parts[2] \o parts[3]
                 ELSE date0
        time0 == IF "time" \in DOMAIN gd /\ Truthy(gd["time"]) THEN gd["time"] ELSE None
        time1 == IF /\ ~startsParen
                    /\ "min" \in DOMAIN gd /\ "sec" \in DOMAIN gd
                    /\ Truthy(GdGet(gd, "min")) /\ Truthy(GdGet(gd, "sec"))
                    /\ Truthy(GdGet(gd, "time"))
                 THEN gd["time"] \o gd["min"] \o gd["sec"]
                 ELSE time0
        time2 == IF time1 # None /\ Len(time1) # 6 THEN None ELSE time1
    IN IF ~Truthy(date0) THEN [continue |-> TRUE]
       ELSE IF Len(date1) # 8 THEN [continue |-> TRUE]
       ELSE [continue |-> FALSE, date |-> date1, time |-> time2]

RECURSIVE ParseFrom(_, _)
ParseFrom(pats, i) ==
    IF i > Len(pats) THEN [date |-> None, time |-> None]
    ELSE IF ~pats[i].m.matched THEN ParseFrom(pats, i + 1)
    ELSE LET r == ParseOne(pats[i].m.gd, pats[i].startsParen)
         IN IF r.continue THEN ParseFrom(pats, i + 1)
            ELSE [date |-> r.date, time |-> r.time]

parse_datetime_from_filename(n) == ParseFrom(FILENAME_PATTERNS(Stem(n)), 1)

-----------------------------------------------------------------------------
(* script.py: the filesystem heuristic *)

ROOT_DIR == <<"C", ":", "\\", "s", "i", "i", "r", "t", "o">>

IsSep(c) == c \in {"\\", "/"}

\* re.search(r"[\\/](\d{4})(?=[\\/])", path): the leftmost position where a
\* separator is followed by four digits and then a separator; 0 if none
FolderYearSearch(path) ==
    LET hits == {i \in 1..(Len(path) - 5) :
                    /\ IsSep(path[i])
                    /\ AllDigits(path, i + 1, i + 4)
                    /\ IsSep(path[i + 5])}
    IN IF hits = {} THEN 0 ELSE CHOOSE i \in hits : \A j \in hits : i <= j

\* st is what os.path.getctime / getmtime give: the two times, or OSError
get_best_file_time(path, st) ==
    IF ~st.ok THEN Raised("OSError")
    ELSE
    LET created   == FromTimestamp(st.val.ctime)
        modified  == FromTimestamp(st.val.mtime)
        best_time == DtMin(created, modified)
        at        == FolderYearSearch(path)
        folder_year == ToInt(SubSeq(path, at + 1, at + 4))
    IN IF at # 0 /\ best_time.year > folder_year
       THEN MkDatetime(folder_year, 12, 31, 23, 59, 59)
       ELSE Returned(best_time)

-----------------------------------------------------------------------------
(* script.py: files, paths and the external collaborators *)

LastIndex(p, S) ==
    LET at == {i \in 1..Len(p) : p[i] \in S}
    IN IF at = {} THEN 0 ELSE CHOOSE i \in at : \A j \in at : j <= i

\* os.path.splitext(p): <<root, ext>>
Splitext(p) ==
    LET sepIndex == LastIndex(p, {"\\", "/"})
        dotIndex == LastIndex(p, {"."})
    IN IF dotIndex > sepIndex /\ \E k \in (sepIndex + 1)..(dotIndex - 1) : p[k] # "."
       THEN <<SubSeq(p, 1, dotIndex - 1), SubSeq(p, dotIndex, Len(p))>>
       ELSE <<p, <<>>>>

UpperLetters == <<"A", "B", "C", "D", "E", "F", "G", "H", "I", "J", "K", "L", "M",
                  "N", "O", "P", "Q", "R", "S", "T", "U", "V", "W", "X", "Y", "Z">>

LowerLetters == <<"a", "b", "c", "d", "e", "f", "g", "h", "i", "j", "k", "l", "m",
                  "n", "o", "p", "q", "r", "s", "t", "u", "v", "w", "x", "y", "z">>

\* str.lower()
Lower(t) ==
    [i \in 1..Len(t) |->
        IF \E k \in 1..26 : UpperLetters[k] = t[i]
        THEN LowerLetters[CHOOSE k \in 1..26 : UpperLetters[k] = t[i]]
        ELSE t[i]]

PhotoExts == { <<".", "j", "p", "g">>, <<".", "j", "p", "e", "g">>,
               <<".", "t", "i", "f">>, <<".", "t", "i", "f", "f">> }

SidecarExts == { <<".", "p", "n", "g">>, <<".", "b", "m", "p">>,
                 <<".", "g", "i", "f">>, <<".", "w", "e", "b", "p">> }

AviExt == <<".", "a", "v", "i">>

VideoExts == { <<".", "m", "p", "4">>, <<".", "m", "o", "v">>, <<".", "m", "4", "v">>,
               <<".", "3", "g", "p">>, <<".", "3", "g", "2">> }

Exists(d, p) == p \in DOMAIN d

Put(d, p, f) == (p :> f) @@ d

Remove(d, p) == [q \in DOMAIN d \ {p} |-> d[q]]

\* os.path.getctime(path), os.path.getmtime(path): OSError when the file is
\* gone or the call fails (statOk = FALSE)
Stat(d, p, statOk) ==
    IF statOk /\ Exists(d, p)
    THEN Returned([ctime |-> d[p].ctime, mtime |-> d[p].mtime])
    ELSE Raised("OSError")

\* script.py's counters at the start of a run (whatsapp.py keeps none)
NoStats == [scanned |-> 0, photos_changed |-> 0, videos_changed |-> 0,
            skipped |-> 0, errors |-> 0]

Bump(s, k) == [s EXCEPT ![k] = @ + 1]

\* what a handler leaves: the disk, the counters, its record (with the
\* exception it let escape, "none" when it returned)
Result(d, s, l, exc) ==
    [disk |-> d, stats |-> s, log |-> ("exc" :> exc) @@ l, exc |-> exc]

NoLog == [fn |-> "none"]

-----------------------------------------------------------------------------
(* script.py: photos and sidecars *)

\* loadOk: piexif.load(path) did not raise
has_exif_datetime(d, path, loadOk) ==
    loadOk /\ Exists(d, path) /\ "DateTimeOriginal" \in DOMAIN d[path].meta

\* write \in {"ok", "load", "dump", "insert"}: the tag-library call that
\* raises, if any. Returns the disk, the counters and the exception raised.
set_exif_datetime(d, s, path, dt, dry, write, now) ==
    LET formatted == StrftimeExif(dt)
    IN IF dry THEN [disk |-> d, stats |-> Bump(s, "photos_changed"), exc |-> "none"]
       ELSE IF write # "ok" \/ ~Exists(d, path)
       THEN [disk |-> d, stats |-> s, exc |-> "Exception"]
       ELSE [disk |-> Put(d, path,
                          [d[path] EXCEPT !.meta = ("DateTimeOriginal" :> formatted) @@ @,
                                          !.mtime = now]),
             stats |-> Bump(s, "photos_changed"),
             exc |-> "none"]

\* e: the outcomes of the external calls (load, stat, write)
process_photo(d, s, path, dry, e, now) ==
    LET ext == Lower(Splitext(path)[2])
        has == has_exif_datetime(d, path, e.load)
        chosen_dt == get_best_file_time(path, Stat(d, path, e.stat))
        w == set_exif_datetime(d, s, path, chosen_dt.val, dry, e.write, now)
        L(res, dt, wr, out) ==
            [fn |-> "process_photo", load |-> e.load, has |-> has, resolved |-> res,
             chosen |-> dt, write |-> wr, outcome |-> out]
    IN IF ext \notin PhotoExts
       THEN Result(d, Bump(s, "skipped"), L("no", None, "none", "skipped"), "none")
       ELSE IF ~has
       THEN IF ~chosen_dt.ok
            THEN Result(d, s, L("raise", None, "none", "raised"), chosen_dt.exc)
            ELSE IF dry
            THEN Result(d, Bump(s, "photos_changed"),
                        L("ok", chosen_dt.val, "none", "photos_changed"), "none")
            ELSE IF w.exc = "none"
            THEN Result(w.disk, w.stats,
                        L("ok", chosen_dt.val, "ok", "photos_changed"), "none")
            ELSE Result(d, Bump(s, "errors"),
                        L("ok", chosen_dt.val, e.write, "errors"), "none")
       ELSE Result(d, Bump(s, "skipped"), L("no", None, "none", "skipped"), "none")

\* create_xmp_sidecar as it would be without its DRY_RUN test
SidecarWithoutDryRunTest(d, s, path, dt, dry, writeOk, now) ==
    IF writeOk
    THEN [disk |-> Put(d, path \o <<".", "x", "m", "p">>,
                       [data |-> "xmp", meta |-> ("CreateDate" :> StrftimeIso(dt)),
                        ctime |-> now, mtime |-> now]),
          stats |-> Bump(s, "photos_changed"), wrote |-> TRUE]
    ELSE [disk |-> d, stats |-> Bump(s, "errors"), wrote |-> FALSE]

\* writeOk: open(sidecar_path, "w") and f.write did not raise
create_xmp_sidecar(d, s, path, dt, dry, writeOk, now) ==
    LET sidecar_path == path \o <<".", "x", "m", "p">>
        formatted == StrftimeIso(dt)
    IN IF dry THEN [disk |-> d, stats |-> Bump(s, "photos_changed"), wrote |-> FALSE]
       ELSE IF writeOk
       THEN [disk |-> Put(d, sidecar_path,
                          [data |-> "xmp", meta |-> ("CreateDate" :> formatted),
                           ctime |-> now, mtime |-> now]),
             stats |-> Bump(s, "photos_changed"), wrote |-> TRUE]
       ELSE [disk |-> d, stats |-> Bump(s, "errors"), wrote |-> FALSE]

\* main, lines 211-213: the sidecar branch
sidecar_branch(d, s, path, dry, e, now) ==
    LET chosen_dt == get_best_file_time(path, Stat(d, path, e.stat))
        c == create_xmp_sidecar(d, s, path, chosen_dt.val, dry, e.write = "ok", now)
        L(res, dt, out) ==
            [fn |-> "create_xmp_sidecar", resolved |-> res, chosen |-> dt, outcome |-> out]
    IN IF ~chosen_dt.ok
       THEN Result(d, s, L("raise", None, "raised"), chosen_dt.exc)
       ELSE Result(c.disk, c.stats,
                   L("ok", chosen_dt.val,
                     IF dry \/ c.wrote THEN "photos_changed" ELSE "errors"), "none")

-----------------------------------------------------------------------------
(* script.py: the external transcoder and the two video handlers *)

\* What an ffmpeg run that writes `out` leaves there. rn: "rc0" (exit code
\* 0), "rc1" (another exit code) or "raise" (subprocess.run raised); left:
\* what is at `out` afterwards when the run did not end with exit code 0.
FfmpegWrites(d, src, out, formatted, rn, left, now) ==
    LET full == [data |-> "ffmpeg", ctime |-> now, mtime |-> now,
                 meta |-> ("creation_time" :> formatted) @@ d[src].meta]
        partial == [data |-> "partial", meta |-> <<>>, ctime |-> now, mtime |-> now]
    IN IF rn = "rc0" \/ left = "full" THEN Put(d, out, full)
       ELSE IF left = "partial" THEN Put(d, out, partial)
       ELSE d

\* RemoveIfExists as it would be if the temp file were left where it is
KeepTemp(d, tmpfile) == d

\* if os.path.exists(tmpfile): os.remove(tmpfile), the removal succeeding
RemoveIfExists(d, tmpfile) == IF Exists(d, tmpfile) THEN Remove(d, tmpfile) ELSE d

\* the except clause of process_video, lines 153-157
video_except(d, s, tmpfile, rmOk) ==
    IF Exists(d, tmpfile) /\ ~rmOk
    THEN [disk |-> d, stats |-> Bump(s, "errors"), rm |-> "raise", exc |-> "OSError"]
    ELSE [disk |-> RemoveIfExists(d, tmpfile), stats |-> Bump(s, "errors"),
          rm |-> IF Exists(d, tmpfile) THEN "ok" ELSE "none", exc |-> "none"]

\* the try block of process_video, lines 138-151: raised = TRUE when an
\* exception reaches the except clause
video_try(d, s, path, tmpfile, formatted, e, now) ==
    LET d1 == FfmpegWrites(d, path, tmpfile, formatted, e.run, e.left, now)
    IN IF e.run = "raise"
       THEN [disk |-> d1, stats |-> s, replace |-> "none", rm |-> "none", raised |-> TRUE]
       ELSE IF e.run = "rc0"
       THEN IF e.replace
            THEN [disk |-> Put(Remove(d1, tmpfile), path, d1[tmpfile]),
                  stats |-> Bump(s, "videos_changed"),
                  replace |-> "ok", rm |-> "none", raised |-> FALSE]
            ELSE [disk |-> d1, stats |-> s,
                  replace |-> "raise", rm |-> "none", raised |-> TRUE]
       ELSE IF Exists(d1, tmpfile) /\ ~e.rm1
       THEN [disk |-> d1, stats |-> Bump(s, "errors"),
             replace |-> "none", rm |-> "raise", raised |-> TRUE]
       ELSE [disk |-> RemoveIfExists(d1, tmpfile), stats |-> Bump(s, "errors"),
             replace |-> "none", rm |-> IF Exists(d1, tmpfile) THEN "ok" ELSE "none",
             raised |-> FALSE]

process_video(d, s, path, dry, e, now) ==
    LET chosen_dt == get_best_file_time(path, Stat(d, path, e.stat))
        formatted == StrftimeIso(chosen_dt.val)
        sp == Splitext(path)
        tmpfile == sp[1] \o <<".", "t", "m", "p">> \o sp[2]
        t == video_try(d, s, path, tmpfile, formatted, e, now)
        x == video_except(t.disk, t.stats, tmpfile, e.rm2)
        L(res, dt, probe, rn, rep, r1, r2, out) ==
            [fn |-> "process_video",
             dated |-> Exists(d, path) /\ "creation_time" \in DOMAIN d[path].meta,
             resolved |-> res, chosen |-> dt, probe |-> probe,
             run |-> rn, replace |-> rep, rm1 |-> r1, rm2 |-> r2, outcome |-> out]
    IN IF ~chosen_dt.ok
       THEN Result(d, s, L("raise", None, "none", "none", "none", "none", "none", "raised"),
                   chosen_dt.exc)
       ELSE IF e.probe = "raise"
       THEN Result(d, s,
                   L("ok", chosen_dt.val, "raise", "none", "none", "none", "none", "raised"),
                   "OSError")
       ELSE IF e.probe = "nostream"
       THEN Result(d, Bump(s, "skipped"),
                   L("ok", chosen_dt.val, "nostream", "none", "none", "none", "none",
                     "skipped"), "none")
       ELSE IF dry
       THEN Result(d, Bump(s, "videos_changed"),
                   L("ok", chosen_dt.val, "stream", "none", "none", "none", "none",
                     "videos_changed"), "none")
       ELSE IF ~t.raised
       THEN Result(t.disk, t.stats,
                   L("ok", chosen_dt.val, "stream", e.run, t.replace, t.rm, "none",
                     IF e.run = "rc0" THEN "videos_changed" ELSE "errors"), "none")
       ELSE Result(x.disk, x.stats,
                   L("ok", chosen_dt.val, "stream", e.run, t.replace, t.rm, x.rm,
                     IF x.exc = "none" THEN "errors" ELSE "raised"), x.exc)

\* os.remove(path) after a conversion, lines 191-196: a failure is a warning
avi_cleanup(d, path, del, rmOk) ==
    IF del /\ rmOk /\ Exists(d, path) THEN Remove(d, path) ELSE d

process_avi(d, s, path, dry, del, e, now) ==
    LET chosen_dt == get_best_file_time(path, Stat(d, path, e.stat))
        formatted == StrftimeIso(chosen_dt.val)
        output_file == Splitext(path)[1] \o <<".", "m", "p", "4">>
        d1 == FfmpegWrites(d, path, output_file, formatted, e.run, e.left, now)
        L(res, dt, rn, rm, ret) ==
            [fn |-> "process_avi", resolved |-> res, chosen |-> dt, run |-> rn,
             removed |-> rm, ret |-> ret, outcome |-> IF res = "raise" THEN "raised" ELSE "none"]
    IN IF ~chosen_dt.ok
       THEN Result(d, s, L("raise", None, "none", "none", "none"), chosen_dt.exc)
       ELSE IF dry
       THEN Result(d, s, L("ok", chosen_dt.val, "none", "none", "True"), "none")
       ELSE IF e.run = "rc0"
       THEN Result(avi_cleanup(d1, path, del, e.rm1), s,
                   L("ok", chosen_dt.val, "rc0",
                     IF ~del THEN "none" ELSE IF e.rm1 THEN "ok" ELSE "raise", "True"),
                   "none")
       ELSE Result(d1, s, L("ok", chosen_dt.val, e.run, "none", "False"), "none")

\* main, lines 206-220: the handler an extension is dispatched to
Classify(ext) ==
    IF ext \in PhotoExts THEN "process_photo"
    ELSE IF ext \in SidecarExts THEN "create_xmp_sidecar"
    ELSE IF ext = AviExt THEN "process_avi"
    ELSE IF ext \in VideoExts THEN "process_video"
    ELSE "unsupported"

-----------------------------------------------------------------------------
(* whatsapp.py *)

JPEG_EXTS == { <<".", "j", "p", "g">>, <<".", "j", "p", "e", "g">> }

\* Path(path).name
Basename(path) == SubSeq(path, LastIndex(path, {"\\", "/"}) + 1, Len(path))

\* str.strip()
RECURSIVE Strip(_)
Strip(t) ==
    IF t = <<>> THEN t
    ELSE IF t[1] = " " THEN Strip(Tail(t))
    ELSE IF t[Len(t)] = " " THEN Strip(SubSeq(t, 1, Len(t) - 1))
    ELSE t

\* the tag's text, stripped, or None when it is missing or blank
exif_get_field(exif_dict, tag) ==
    LET v == IF tag \in DOMAIN exif_dict THEN exif_dict[tag] ELSE <<>>
    IN IF Strip(v) = <<>> THEN None ELSE Strip(v)

exif_has_datetime_original(exif_dict) ==
    exif_get_field(exif_dict, "DateTimeOriginal") # None

dt_to_exif_string(dt) == StrftimeExif(dt)

set_exif_dates(exif_dict, dt) ==
    LET t == dt_to_exif_string(dt)
    IN ("DateTimeOriginal" :> t) @@ ("DateTimeDigitized" :> t) @@ ("DateTime" :> t)
       @@ exif_dict

\* compose_datetime as it would be if the date came from the modified time
ComposeWithMtimeDate(date_raw, time_raw, time_default, mtime) ==
    LET t == FromTimestamp(mtime)
    IN IF Truthy(time_raw)
       THEN MkDatetime(t.year, t.month, t.day, ToInt(SubSeq(time_raw, 1, 2)),
                       ToInt(SubSeq(time_raw, 3, 4)), ToInt(SubSeq(time_raw, 5, 6)))
       ELSE IF time_default = <<"k", "e", "e", "p", "-", "m", "t", "i", "m", "e">>
       THEN MkDatetime(t.year, t.month, t.day, t.hour, t.minute, t.second)
       ELSE IF time_default = <<"n", "o", "o", "n">>
       THEN MkDatetime(t.year, t.month, t.day, 12, 0, 0)
       ELSE MkDatetime(t.year, t.month, t.day, 0, 0, 0)

\* the datetime, or the ValueError of its constructor
compose_datetime(date_raw, time_raw, time_default, mtime) ==
    LET y  == ToInt(SubSeq(date_raw, 1, 4))
        mo == ToInt(SubSeq(date_raw, 5, 6))
        d  == ToInt(SubSeq(date_raw, 7, 8))
        t  == FromTimestamp(mtime)
    IN IF Truthy(time_raw)
       THEN MkDatetime(y, mo, d, ToInt(SubSeq(time_raw, 1, 2)),
                       ToInt(SubSeq(time_raw, 3, 4)), ToInt(SubSeq(time_raw, 5, 6)))
       ELSE IF time_default = <<"k", "e", "e", "p", "-", "m", "t", "i", "m", "e">>
       THEN MkDatetime(y, mo, d, t.hour, t.minute, t.second)
       ELSE IF time_default = <<"n", "o", "o", "n">>
       THEN MkDatetime(y, mo, d, 12, 0, 0)
       ELSE MkDatetime(y, mo, d, 0, 0, 0)

\* lines 187-196: the source datetime, or the exception of compose_datetime
decide_source(path, a, orig_mtime) ==
    LET p == parse_datetime_from_filename(Basename(path))
    IN IF a.from_filename /\ Truthy(p.date)
       THEN compose_datetime(p.date, p.time, a.time_default, orig_mtime)
       ELSE Returned(FromTimestamp(orig_mtime))

\* a: the keyword arguments; e: the outcomes of the external calls (stat,
\* load, and write \in {"ok", "dump", "insert", "utime"}: the call that raises)
process_file(d, path, a, e, now) ==
    LET orig_mtime == d[path].mtime
        exif_dict == IF e.load THEN d[path].meta ELSE <<>>
        already_has == exif_has_datetime_original(exif_dict)
        dt_source == decide_source(path, a, orig_mtime)
        written == [d[path] EXCEPT !.meta = set_exif_dates(exif_dict, dt_source.val),
                                   !.mtime = now]
        restored == [written EXCEPT !.mtime = orig_mtime]
        L(msg, has, res, dt, wr) ==
            [fn |-> "process_file", msg |-> msg, load |-> e.load, has |-> has,
             resolved |-> res, chosen |-> dt, write |-> wr]
        R(dd, l, exc) == Result(dd, NoStats, l, exc)
    IN IF ~e.stat \/ ~Exists(d, path)
       THEN R(d, L("raised", FALSE, "no", None, "none"), "OSError")
       ELSE IF a.show_meta
       THEN R(d, L("SHOW-META", already_has, "no", None, "none"), "none")
       ELSE IF already_has /\ ~a.force
       THEN R(d, L("SKIP", TRUE, "no", None, "none"), "none")
       ELSE IF ~dt_source.ok
       THEN R(d, L("ERROR", already_has, "raise", None, "none"), "none")
       ELSE IF a.dry_run
       THEN R(d, L("DRY-RUN", already_has, "ok", dt_source.val, "none"), "none")
       ELSE IF e.write \in {"dump", "insert"}
       THEN R(d, L("ERROR", already_has, "ok", dt_source.val, e.write), "none")
       ELSE IF e.write = "utime"
       THEN R(Put(d, path, written),
              L("ERROR", already_has, "ok", dt_source.val, "utime"), "none")
       ELSE R(Put(d, path, restored),
              L("UPDATED", already_has, "ok", dt_source.val, "ok"), "none")

-----------------------------------------------------------------------------
(* Inputs *)

\* the longest chain of folders below ROOT_DIR in a modelled path
MaxDepth == 2

\* 2018-06-15 12:00:00, 2019-12-31 23:59:59, 2020-01-01 00:00:00,
\* 2023-05-01 10:20:30 as seconds since the epoch
Timestamps == {1529064000, 1577836799, 1577836800, 1682936430}

FolderNames ==
    { <<"2", "0", "1", "9">>, <<"0", "0", "0", "0">>, <<"2", "0", "2", "3">>,
      <<"2", "0", "1", "9", "0">>, <<"x", "2", "0", "1", "9">>, <<"p">> }

BaseNames == { <<"a", ".", "j", "p", "g">>, <<"2", "0", "1", "8">> }

RECURSIVE JoinPath(_, _)
JoinPath(segs, sep) ==
    IF segs = <<>> THEN <<>>
    ELSE <<sep>> \o segs[1] \o JoinPath(Tail(segs), sep)

\* os.path.join(root, file) for the folders os.walk reaches below ROOT_DIR
Paths ==
    { ROOT_DIR \o JoinPath(folders \o <<base>>, sep) :
        folders \in UNION {[1..d -> FolderNames] : d \in 0..MaxDepth},
        base \in BaseNames, sep \in {"\\", "/"} }

Prefixes == { <<>>, <<"I", "M", "G", "-">>, <<"V", "I", "D", "-">>,
              <<"P", "X", "L", "_">>, <<"x">> }

DateTexts == { <<"2", "0", "2", "1", "0", "7", "0", "4">>,
               <<"2", "0", "2", "1", "-", "0", "7", "-", "0", "4">>,
               <<"2", "0", "2", "1", "_", "0", "7", "_", "0", "4">>,
               <<"2", "0", "2", "1", "1", "3", "4", "5">>,
               <<"2", "0", "2", "1", "0", "7">> }

Joiners == { <<>>, <<"_">>, <<"-">>, <<" ">>, <<"T">>, <<".">> }

Tails == { <<>>, <<"1", "2", "3", "0", "4", "5">>,
           <<"1", "2", ".", "3", "0", ".", "4", "5">>,
           <<"1", "2", "-", "3", "0", "-", "4", "5">>,
           <<"1", "2", ":", "3", "0", ":", "4", "5">>,
           <<"W", "A", "0", "0", "0", "1">>, <<"W", "A">>,
           <<"1", "2", "3", "0">>, <<"2", "5", "6", "1", "7", "0">> }

Extensions == { <<>>, <<".", "j", "p", "g">> }

FileNames ==
    { p \o d \o j \o t \o e :
        p \in Prefixes, d \in DateTexts, j \in Joiners, t \in Tails, e \in Extensions }

\* the most files one run of script.py walks
MaxFiles == 2

RunFolders == { <<"p">>, <<"2", "0", "1", "9">>, <<"0", "0", "0", "0">> }

RunNames == { <<"a", ".", "j", "p", "g">>, <<"b", ".", "J", "P", "G">>,
              <<"a", ".", "p", "n", "g">>, <<"a", ".", "a", "v", "i">>,
              <<"a", ".", "m", "p", "4">>, <<"a", ".", "t", "x", "t">> }

\* 2018-06-15 12:00:00 and 2023-05-01 10:20:30
RunTimes == {1529064000, 1682936430}

\* the clock when the run creates or rewrites a file: 2023-11-14 22:13:20
NowTimes == {1700000000}

OldExifDate == <<"2", "0", "1", "7", ":", "0", "1", ":", "0", "2", " ",
                 "0", "3", ":", "0", "4", ":", "0", "5">>

OldCreationTime == <<"2", "0", "1", "7", "-", "0", "1", "-", "0", "2", "T",
                     "0", "3", ":", "0", "4", ":", "0", "5">>

\* the metadata a file of this extension may carry when the run starts
MetasFor(ext) ==
    IF ext \in PhotoExts THEN { <<>>, "DateTimeOriginal" :> OldExifDate }
    ELSE IF ext \in VideoExts THEN { <<>>, "creation_time" :> OldCreationTime }
    ELSE { <<>> }

\* a file os.walk finds under ROOT_DIR: os.path.join(root, file) and the file
FoundFiles ==
    { [path |-> ROOT_DIR \o JoinPath(<<folder, base>>, "\\"),
       file |-> [data |-> "original", meta |-> m, ctime |-> c, mtime |-> mt]] :
        folder \in RunFolders, base \in RunNames,
        m \in UNION {MetasFor(Lower(Splitext(b)[2])) : b \in RunNames},
        c \in RunTimes, mt \in RunTimes }

WalkFiles ==
    { f \in FoundFiles : f.file.meta \in MetasFor(Lower(Splitext(f.path)[2])) }

PhotoEnv == [load : BOOLEAN, stat : BOOLEAN, write : {"ok", "load", "dump", "insert"}]

SidecarEnv == [stat : BOOLEAN, write : {"ok", "open"}]

\* exit code 0 leaves the whole output; another exit code leaves nothing or
\* a partial output; an exception of subprocess.run leaves any of the three
FfmpegEnv ==
    { r \in [run : {"rc0", "rc1", "raise"}, left : {"none", "partial", "full"}] :
        /\ r.run = "rc0" => r.left = "full"
        /\ r.run = "rc1" => r.left # "full" }

AviEnv ==
    { [stat |-> st, run |-> f.run, left |-> f.left, rm1 |-> r1] :
        st \in BOOLEAN, f \in FfmpegEnv, r1 \in BOOLEAN }

\* (the outcome of a call that is not made is fixed, not chosen)
VideoEnv ==
    { e \in [stat : BOOLEAN, probe : {"raise", "nostream", "stream"},
             run : {"rc0", "rc1", "raise"}, left : {"none", "partial", "full"},
             replace : BOOLEAN, rm1 : BOOLEAN, rm2 : BOOLEAN] :
        /\ [run |-> e.run, left |-> e.left] \in FfmpegEnv
        /\ e.run # "rc0" => e.replace
        /\ e.run # "rc1" => e.rm1
        /\ (e.run = "rc1" /\ e.left = "none") => (e.rm1 /\ e.rm2) }

TimeDefaults == { <<"z", "e", "r", "o">>, <<"n", "o", "o", "n">>,
                  <<"k", "e", "e", "p", "-", "m", "t", "i", "m", "e">> }

WaArgs ==
    [dry_run : BOOLEAN, show_meta : BOOLEAN, from_filename : BOOLEAN,
     time_default : TimeDefaults, force : BOOLEAN]

WaFolder == <<"d">>

\* IMG-20210704-WA0001.jpg, PXL_20230115_143000.jpg, 2021-07-04 12.30.45.jpg,
\* 20211345.jpg, 20210704_256170.jpg, trip.jpg
WaNames ==
    { <<"I", "M", "G", "-", "2", "0", "2", "1", "0", "7", "0", "4", "-",
        "W", "A", "0", "0", "0", "1", ".", "j", "p", "g">>,
      <<"P", "X", "L", "_", "2", "0", "2", "3", "0", "1", "1", "5", "_",
        "1", "4", "3", "0", "0", "0", ".", "j", "p", "g">>,
      <<"2", "0", "2", "1", "-", "0", "7", "-", "0", "4", " ",
        "1", "2", ".", "3", "0", ".", "4", "5", ".", "j", "p", "g">>,
      <<"2", "0", "2", "1", "1", "3", "4", "5", ".", "j", "p", "g">>,
      <<"2", "0", "2", "1", "0", "7", "0", "4", "_",
        "2", "5", "6", "1", "7", "0", ".", "j", "p", "g">>,
      <<"t", "r", "i", "p", ".", "j", "p", "g">> }

\* 2022-03-01 08:09:10 and 2018-06-15 12:00:00
WaTimes == {1646122150, 1529064000}

WaMetas == { <<>>, "DateTimeOriginal" :> OldExifDate, "DateTimeOriginal" :> <<" ", " ">> }

WaFiles ==
    { [path |-> WaFolder \o JoinPath(<<n>>, "/"),
       file |-> [data |-> "original", meta |-> m, ctime |-> t, mtime |-> t]] :
        n \in WaNames, m \in WaMetas, t \in WaTimes }

WaEnv == [stat : BOOLEAN, load : BOOLEAN, write : {"ok", "dump", "insert", "utime"}]

-----------------------------------------------------------------------------
(* The matcher applied to a name *)

MatchIdle == name = <<>> /\ parsed = None /\ mpc = "idle"

BestIdle == bpath = <<>> /\ bctime = 0 /\ bmtime = 0 /\ bres = None /\ bpc = "idle"

RunIdle ==
    /\ prog = "none" /\ pc = "idle" /\ runNo = 0 /\ args = <<>> /\ stats = NoStats
    /\ disk = <<>> /\ cur = <<>> /\ todo = {} /\ log = NoLog

InitMatch ==
    /\ name \in FileNames
    /\ parsed = None
    /\ mpc = "input"
    /\ BestIdle
    /\ RunIdle

Parse ==
    /\ mpc = "input"
    /\ parsed' = parse_datetime_from_filename(name)
    /\ mpc' = "parsed"
    /\ UNCHANGED <<name, bpath, bctime, bmtime, bres, bpc>>
    /\ UNCHANGED rundata

NextMatch == Parse

SpecMatch == InitMatch /\ [][NextMatch]_vars

-----------------------------------------------------------------------------
(* get_best_file_time applied to a path *)

InitBest ==
    /\ bpath \in Paths
    /\ bctime \in Timestamps
    /\ bmtime \in Timestamps
    /\ bres = None
    /\ bpc = "input"
    /\ MatchIdle
    /\ RunIdle

CallBest ==
    /\ bpc = "input"
    /\ bres' = get_best_file_time(bpath, Returned([ctime |-> bctime, mtime |-> bmtime]))
    /\ bpc' = "called"
    /\ UNCHANGED <<bpath, bctime, bmtime, name, parsed, mpc>>
    /\ UNCHANGED rundata

NextBest == CallBest

SpecBest == InitBest /\ [][NextBest]_vars

-----------------------------------------------------------------------------
(* A run of script.py *)

DRY_RUN == args.dry_run

DELETE_ORIGINALS == args.delete_originals

PureIdle == MatchIdle /\ BestIdle

InitScript ==
    /\ prog = "script"
    /\ pc = "walk"
    /\ runNo = 1
    /\ args \in [dry_run : BOOLEAN, delete_originals : BOOLEAN]
    /\ stats = NoStats
    /\ disk = <<>>
    /\ cur = <<>>
    /\ todo = {}
    /\ log = NoLog
    /\ PureIdle

\* main, lines 203-220: os.walk yields the next file; it is counted and
\* dispatched by its extension
Walk ==
    /\ prog = "script" /\ pc = "walk" /\ runNo = 1
    /\ stats.scanned < MaxFiles
    /\ \E f \in WalkFiles :
        /\ disk' = (f.path :> f.file)
        /\ cur' = f.path
        /\ pc' = Classify(Lower(Splitext(f.path)[2]))
    /\ stats' = Bump(stats, "scanned")
    /\ log' = NoLog
    /\ UNCHANGED <<prog, runNo, args, todo>>
    /\ UNCHANGED puredata

\* the same in a second run: the next of the files listed when it started
WalkAgain ==
    /\ prog = "script" /\ pc = "walk" /\ runNo = 2
    /\ \E path \in todo :
        /\ cur' = path
        /\ todo' = todo \ {path}
        /\ pc' = Classify(Lower(Splitext(path)[2]))
    /\ stats' = Bump(stats, "scanned")
    /\ log' = NoLog
    /\ UNCHANGED <<prog, runNo, args, disk>>
    /\ UNCHANGED puredata

\* a handler returned (main goes on) or let an exception escape (main ends)
Handled(r) ==
    /\ disk' = r.disk
    /\ stats' = r.stats
    /\ log' = r.log
    /\ pc' = IF r.exc = "none" THEN "walk" ELSE "aborted"
    /\ UNCHANGED <<prog, runNo, args, cur, todo>>
    /\ UNCHANGED puredata

ProcessPhoto ==
    /\ prog = "script" /\ pc = "process_photo"
    /\ \E e \in PhotoEnv, now \in NowTimes :
        Handled(process_photo(disk, stats, cur, DRY_RUN, e, now))

CreateSidecar ==
    /\ prog = "script" /\ pc = "create_xmp_sidecar"
    /\ \E e \in SidecarEnv, now \in NowTimes :
        Handled(sidecar_branch(disk, stats, cur, DRY_RUN, e, now))

ProcessAvi ==
    /\ prog = "script" /\ pc = "process_avi"
    /\ \E e \in AviEnv, now \in NowTimes :
        Handled(process_avi(disk, stats, cur, DRY_RUN, DELETE_ORIGINALS, e, now))

ProcessVideo ==
    /\ prog = "script" /\ pc = "process_video"
    /\ \E e \in VideoEnv, now \in NowTimes :
        Handled(process_video(disk, stats, cur, DRY_RUN, e, now))

\* main, lines 218-220
SkipUnsupported ==
    /\ prog = "script" /\ pc = "unsupported"
    /\ Handled(Result(disk, Bump(stats, "skipped"),
                      [fn |-> "main", outcome |-> "skipped"], "none"))

\* main, lines 222-229: the tree is exhausted and the summary is printed
Summary ==
    /\ prog = "script" /\ pc = "walk"
    /\ runNo = 2 => todo = {}
    /\ pc' = "done"
    /\ UNCHANGED <<prog, runNo, args, stats, disk, cur, todo, log>>
    /\ UNCHANGED puredata

\* the program is started again, with the same flags, on a folder whose
\* first run walked one file (and ended, with the summary or with an escaped
\* exception): the counters start from zero and os.walk lists the files now
\* in the folder
Rerun ==
    /\ prog = "script" /\ pc \in {"done", "aborted"} /\ runNo = 1
    /\ stats.scanned = 1
    /\ runNo' = 2
    /\ stats' = NoStats
    /\ todo' = DOMAIN disk
    /\ pc' = "walk"
    /\ log' = NoLog
    /\ UNCHANGED <<prog, args, disk, cur>>
    /\ UNCHANGED puredata

NextScript ==
    \/ Walk
    \/ WalkAgain
    \/ ProcessPhoto
    \/ CreateSidecar
    \/ ProcessAvi
    \/ ProcessVideo
    \/ SkipUnsupported
    \/ Summary
    \/ Rerun

SpecScript == InitScript /\ [][NextScript]_vars

-----------------------------------------------------------------------------
(* A run of whatsapp.py over a folder that holds one JPEG *)

\* main, lines 230-233: the JPEGs of the folder
JpegPaths(d) == {p \in DOMAIN d : Lower(Splitext(p)[2]) \in JPEG_EXTS}

InitWa ==
    /\ prog = "whatsapp"
    /\ pc = "walk"
    /\ runNo = 1
    /\ args \in WaArgs
    /\ stats = NoStats
    /\ \E f \in WaFiles : disk = (f.path :> f.file)
    /\ cur = <<>>
    /\ todo = JpegPaths(disk)
    /\ log = NoLog
    /\ PureIdle

\* main, line 239: the next path of the sorted list
WaNext ==
    /\ prog = "whatsapp" /\ pc = "walk"
    /\ \E path \in todo :
        /\ cur' = path
        /\ todo' = todo \ {path}
    /\ pc' = "process_file"
    /\ log' = NoLog
    /\ UNCHANGED <<prog, runNo, args, stats, disk>>
    /\ UNCHANGED puredata

\* main, lines 240-248: process_file and the print of its message
WaProcessFile ==
    /\ prog = "whatsapp" /\ pc = "process_file"
    /\ \E e \in WaEnv, now \in NowTimes :
        Handled(process_file(disk, cur, args, e, now))

WaDone ==
    /\ prog = "whatsapp" /\ pc = "walk" /\ todo = {}
    /\ pc' = "done"
    /\ UNCHANGED <<prog, runNo, args, stats, disk, cur, todo, log>>
    /\ UNCHANGED puredata

\* the program is started again on the folder with the same flags
WaRerun ==
    /\ prog = "whatsapp" /\ pc \in {"done", "aborted"} /\ runNo = 1
    /\ runNo' = 2
    /\ todo' = JpegPaths(disk)
    /\ pc' = "walk"
    /\ log' = NoLog
    /\ UNCHANGED <<prog, args, stats, disk, cur>>
    /\ UNCHANGED puredata

NextWa ==
    \/ WaNext
    \/ WaProcessFile
    \/ WaDone
    \/ WaRerun

-----------------------------------------------------------------------------
(* Either program is run *)

Init == InitScript \/ InitWa

Next == NextScript \/ NextWa

Spec == Init /\ [][Next]_vars

-----------------------------------------------------------------------------
(* The claims *)

Outcomes(s) == s.photos_changed + s.videos_changed + s.skipped + s.errors

\* C1: in a run of script.py, whenever main is between two files, every file
\* scanned so far has incremented exactly one of photos_changed,
\* videos_changed, skipped, errors: scanned is their sum.
C1_OneCounterPerFile ==
    (prog = "script" /\ pc = "walk") => stats.scanned = Outcomes(stats)

\* C2: no failure of a step performed for a file ends the run: no handler
\* lets an exception escape to main, in either program.
C2_NoFailureAbortsBatch == pc # "aborted"

\* the first pattern of the ordered list that matches the stem, 0 if none
FirstMatching(s) ==
    LET hits == {i \in 1..5 : FILENAME_PATTERNS(s)[i].m.matched}
    IN IF hits = {} THEN 0 ELSE CHOOSE i \in hits : \A j \in hits : i <= j

DigitsOf(t) == SelectSeq(t, IsDigit)

\* the result the ordered list gives for the first pattern that matches
ListedResult(s) ==
    LET i == FirstMatching(s)
        gd == FILENAME_PATTERNS(s)[i].m.gd
    IN CASE i \in {1, 5} -> [date |-> gd.date, time |-> None]
         [] i \in {2, 3} -> [date |-> gd.date, time |-> gd.time]
         [] i = 4 -> [date |-> DigitsOf(gd.date), time |-> gd.time \o gd.min \o gd.sec]

\* C8: for a name whose stem matches a pattern, the matcher returns what the
\* list gives for the first pattern that matches: the date alone for patterns
\* 1 and 5, date and 6-digit time for 2 and 3, and for pattern 4 the date as 8
\* digits with the time HHMMSS built from hour, minute and second; the date
\* has 8 digits and the time 6 or is absent.
C8_FirstMatchShape ==
    (mpc = "parsed" /\ FirstMatching(Stem(name)) # 0) =>
        /\ parsed = ListedResult(Stem(name))
        /\ Len(parsed.date) = 8
        /\ parsed.time = None \/ Len(parsed.time) = 6

\* the path cut at its separators
RECURSIVE Segments(_)
Segments(p) ==
    IF \A i \in 1..Len(p) : ~IsSep(p[i]) THEN <<p>>
    ELSE LET i == CHOOSE k \in 1..Len(p) :
                      IsSep(p[k]) /\ \A j \in 1..(k - 1) : ~IsSep(p[j])
         IN <<SubSeq(p, 1, i - 1)>> \o Segments(SubSeq(p, i + 1, Len(p)))

\* the first directory segment from the root that is exactly four digits, as
\* a year; -1 if there is none
FolderYearHint(p) ==
    LET segs == Segments(p)
        hits == {i \in 1..(Len(segs) - 1) : Len(segs[i]) = 4 /\ AllDigits(segs[i], 1, 4)}
    IN IF hits = {} THEN -1
       ELSE ToInt(segs[CHOOSE i \in hits : \A j \in hits : i <= j])

EarlierOf(c, m) == IF DtLess(m, c) THEN m ELSE c

\* C10: get_best_file_time returns the earlier of created and modified,
\* unless the path has a folder-year hint and that instant's year is greater
\* than the hint: then it returns hint-12-31T23:59:59. With a hint the
\* returned year never exceeds it.
C10_FolderYearCap ==
    bpc = "called" =>
        LET chosen == EarlierOf(FromTimestamp(bctime), FromTimestamp(bmtime))
            hint == FolderYearHint(bpath)
        IN /\ bres = IF hint # -1 /\ chosen.year > hint
                     THEN Returned([year |-> hint, month |-> 12, day |-> 31,
                                    hour |-> 23, minute |-> 59, second |-> 59])
                     ELSE Returned(chosen)
           /\ hint # -1 => bres.val.year <= hint

\* root.tmp.ext, the temp file of the remux of path
TempOf(path) == Splitext(path)[1] \o <<".", "t", "m", "p">> \o Splitext(path)[2]

\* <basename>.mp4, the output of the transcode of path
OutputOf(path) == Splitext(path)[1] \o <<".", "m", "p", "4">>

Replaced(d, dd, path) == path \in DOMAIN d /\ (path \notin DOMAIN dd \/ dd[path] # d[path])

Kept(d, dd, path) == path \in DOMAIN d /\ path \in DOMAIN dd /\ dd[path] = d[path]

\* C3: with dry-run set, no step of a handler, of either program and for any
\* file, changes the files on disk (their tags, their content, the set of
\* files of the folder).
C3_DryRunLeavesDiskUnchanged ==
    [][(args.dry_run /\ pc # "walk") => disk' = disk]_vars

\* C3, witness: a dry run has dispatched a sidecar file and counted it.
C3_DryRunSidecarCounted ==
    /\ prog = "script" /\ pc = "walk" /\ args.dry_run
    /\ log.fn = "create_xmp_sidecar" /\ log.outcome = "photos_changed"
    /\ stats.photos_changed = 1
    /\ DOMAIN disk = {cur}

\* C4: process_video in apply mode replaces the original only after the
\* remux returned exit code 0; when the remux returns another code or raises,
\* or the replace raises, the original is as it was, errors is incremented
\* and videos_changed is not, and no temp file is there when it returns.
C4_RemuxAtomic ==
    [][(prog = "script" /\ pc = "process_video" /\ ~args.dry_run) =>
        /\ Replaced(disk, disk', cur) => (log'.run = "rc0" /\ log'.replace = "ok")
        /\ (log'.run \in {"rc1", "raise"} \/ log'.replace = "raise") =>
            /\ Kept(disk, disk', cur)
            /\ stats'.errors > stats.errors
            /\ stats'.videos_changed = stats.videos_changed
            /\ pc' = "walk" => TempOf(cur) \notin DOMAIN disk']_vars

\* C4, witness: a remux failed after writing its temp file, the temp file
\* was removed and process_video returned.
C4_FailedRemuxCleaned ==
    /\ prog = "script" /\ pc = "walk" /\ ~args.dry_run
    /\ log.fn = "process_video" /\ log.run = "rc1" /\ log.rm1 = "ok"
    /\ stats.errors = 1
    /\ TempOf(cur) \notin DOMAIN disk

HasTag(d, path) == path \in DOMAIN d /\ "DateTimeOriginal" \in DOMAIN d[path].meta

HasDate(d, path) == HasTag(d, path) /\ Strip(d[path].meta["DateTimeOriginal"]) # <<>>

\* C5: with the tag library and the file stat succeeding, process_photo in
\* apply mode on a photo without the date tag writes the resolved date and
\* counts photos_changed (Applied); on a photo that has the tag, as in a second
\* run, it resolves nothing, writes nothing and counts skipped. In whatsapp.py
\* a file that has the tag, force unset, is skipped without resolution.
C5_PhotoIdempotent ==
    [][/\ (prog = "script" /\ pc = "process_photo" /\ ~args.dry_run
           /\ log'.load /\ log'.exc # "OSError"
           /\ log'.write \notin {"load", "dump", "insert"}) =>
            IF HasTag(disk, cur)
            THEN log'.outcome = "skipped" /\ log'.resolved = "no" /\ disk' = disk
            ELSE /\ log'.outcome = "photos_changed"
                 /\ disk'[cur].meta["DateTimeOriginal"] = StrftimeExif(log'.chosen)
       /\ (prog = "whatsapp" /\ pc = "process_file" /\ ~args.show_meta /\ ~args.force
           /\ log'.load /\ log'.exc = "none" /\ HasDate(disk, cur)) =>
            log'.msg = "SKIP" /\ log'.resolved = "no" /\ disk' = disk]_vars

\* C6: for a video that already carries a creation date, process_video
\* performs no remux, does not replace the file, and counts skipped.
C6_DatedVideoSkipped ==
    [][(prog = "script" /\ pc = "process_video" /\ log'.dated /\ pc' = "walk") =>
        /\ log'.run = "none"
        /\ disk' = disk
        /\ log'.outcome = "skipped"]_vars

\* C7: process_avi in apply mode removes the source only after exit code 0
\* with delete_originals set; after exit code 0 the output .mp4 is there with
\* creation_time equal to the resolved instant; after another exit code or an
\* exception no .mp4 has been created and the source is as it was; a failed
\* removal leaves the result a success.
C7_AviTranscode ==
    [][(prog = "script" /\ pc = "process_avi" /\ ~args.dry_run /\ log'.resolved = "ok") =>
        /\ (cur \notin DOMAIN disk') => (log'.run = "rc0" /\ args.delete_originals)
        /\ log'.run = "rc0" =>
            /\ OutputOf(cur) \in DOMAIN disk'
            /\ disk'[OutputOf(cur)].meta["creation_time"] = StrftimeIso(log'.chosen)
            /\ log'.ret = "True"
        /\ log'.run \in {"rc1", "raise"} =>
            /\ DOMAIN disk' = DOMAIN disk
            /\ Kept(disk, disk', cur)
            /\ log'.ret = "False"]_vars

TimeOfDay(dt) == <<dt.hour, dt.minute, dt.second>>

DateOf(dt) == <<dt.year, dt.month, dt.day>>

ImgWa0001 ==
    <<"I", "M", "G", "-", "2", "0", "2", "1", "0", "7", "0", "4", "-",
      "W", "A", "0", "0", "0", "1", ".", "j", "p", "g">>

\* C9: process_file with from_filename set, the file not skipped: when the
\* matcher returns a date for the file name, the resolved instant has that
\* date, and its time of day is the matched time if there is one, otherwise
\* 00:00:00 under zero, 12:00:00 under noon, the modified time's under
\* keep-mtime; the modified date is never used (when the constructor refuses
\* the date the outcome is ERROR and nothing is written).
\* IMG-20210704-WA0001.jpg under zero resolves to 2021-07-04T00:00:00.
C9_FilenamePrecedence ==
    [][(prog = "whatsapp" /\ pc = "process_file" /\ args.from_filename
        /\ log'.msg \in {"DRY-RUN", "UPDATED", "ERROR"}) =>
        LET p == parse_datetime_from_filename(Basename(cur))
            digit(t, i) == ToInt(SubSeq(t, i, i + 1))
            mt == FromTimestamp(disk[cur].mtime)
            tod == IF p.time # None
                   THEN <<digit(p.time, 1), digit(p.time, 3), digit(p.time, 5)>>
                   ELSE IF args.time_default = <<"k", "e", "e", "p", "-", "m", "t", "i", "m", "e">>
                   THEN TimeOfDay(mt)
                   ELSE IF args.time_default = <<"n", "o", "o", "n">>
                   THEN <<12, 0, 0>>
                   ELSE <<0, 0, 0>>
        IN p.date # None =>
            IF log'.resolved = "ok"
            THEN /\ DateOf(log'.chosen)
                      = <<ToInt(SubSeq(p.date, 1, 4)), digit(p.date, 5), digit(p.date, 7)>>
                 /\ TimeOfDay(log'.chosen) = tod
                 /\ (Basename(cur) = ImgWa0001 /\ args.time_default = <<"z", "e", "r", "o">>)
                      => (DateOf(log'.chosen) = <<2021, 7, 4>>
                          /\ TimeOfDay(log'.chosen) = <<0, 0, 0>>)
            ELSE log'.msg = "ERROR" /\ disk' = disk]_vars

\* C9, witness: IMG-20210704-WA0001.jpg, modified on 2022-03-01, was given
\* 2021-07-04 00:00:00 under --from-filename --time-default zero.
C9_ImgWaResolved ==
    /\ prog = "whatsapp" /\ pc = "walk" /\ log.fn = "process_file"
    /\ args.from_filename /\ args.time_default = <<"z", "e", "r", "o">>
    /\ Basename(cur) = ImgWa0001
    /\ DateOf(FromTimestamp(disk[cur].mtime)) = <<2022, 3, 1>>
    /\ log.msg = "UPDATED"
    /\ DateOf(log.chosen) = <<2021, 7, 4>> /\ TimeOfDay(log.chosen) = <<0, 0, 0>>
    /\ disk[cur].meta["DateTimeOriginal"] = StrftimeExif(log.chosen)

====
